---------------------------- MODULE Spec2Model ----------------------------
(***************************************************************************)
(* Checkout transaction and rating aggregation of the online-retail        *)
(* backend (Express handlers over a Prisma/PostgreSQL store).              *)
(*                                                                         *)
(* Every request is an independent async handler; handlers interleave at   *)
(* their awaits.  One action below is one handler segment between two      *)
(* awaits (the database call together with the synchronous code that       *)
(* follows it).  Tables are sets of rows; a row is a record named after    *)
(* the Prisma model's fields.                                              *)
(***************************************************************************)
EXTENDS Integers, Sequences, FiniteSets, TLC

\* ------------------------------------------------------------------ bounds
MaxStock == 2          \* initial stock of a product is drawn from 0..MaxStock
MaxQty == 2            \* initial quantity of a cart line is drawn from 0..MaxQty
MaxRequests == 2       \* requests started in one behaviour (concurrent specs)
MaxSeqRequests == 4    \* requests started in one behaviour (one-at-a-time spec)

Products == {"A", "B"}
Buyers == {"u1", "u2"}
Admins == {"admin"}
AllUsers == Buyers \cup Admins
Slots == 1..MaxRequests

Null == [id |-> 0]     \* the null / undefined result of a lookup

\* ------------------------------------------------------------------ state
VARIABLES
  users,        \* User rows that exist (ids)
  product,      \* Product rows: [Products -> [name, slug, price, stock, rating,
                \*   reviewCount,
                \*   deleted]]; deleted marks a row that is no longer in the table
  carts,        \* Cart rows       [id, userId]
  cartItems,    \* CartItem rows   [id, cartId, productId, quantity]
  orders,       \* Order rows      [id, userId, total, status, paymentStatus]
  orderItems,   \* OrderItem rows  [orderId, line, productId, name, price, quantity]
  reviews,      \* Review rows     [id, userId, productId, rating]
  nextId,       \* source of fresh row ids (uuid())
  req,          \* the request handled in each slot: position and local variables
  started,      \* number of requests started so far
  stock0        \* the stock each product started with (history, never read by handlers)

db == <<users, product, carts, cartItems, orders, orderItems, reviews>>
vars == <<users, product, carts, cartItems, orders, orderItems, reviews,
          nextId, req, started, stock0>>

\* ---------------------------------------------------------------- helpers
Range(s) == {s[i] : i \in DOMAIN s}

RECURSIVE SortById(_)
\* The rows of a table in id order (insertion order), as findMany / include returns them.
SortById(S) ==
  IF S = {} THEN <<>>
  ELSE LET m == CHOOSE x \in S : \A y \in S : x.id <= y.id
       IN <<m>> \o SortById(S \ {m})

RECURSIVE SumSeq(_)
SumSeq(s) == IF s = <<>> THEN 0 ELSE Head(s) + SumSeq(Tail(s))

RECURSIVE Gcd(_, _)
Gcd(a, b) == IF b = 0 THEN a ELSE Gcd(b, a % b)

\* A JavaScript number that is the quotient of two small integers, kept exact:
\* <<n, d>> in lowest terms; 0/0 is NaN.
NaN == <<0, 0>>
Zero == <<0, 1>>
Div(n, d) == IF d = 0 THEN NaN ELSE LET g == Gcd(n, d) IN <<n \div g, d \div g>>

IdleReq == [kind |-> "none", pc |-> "idle", user |-> "none", status |-> 0,
            error |-> "none", cartId |-> 0, items |-> <<>>, total |-> 0,
            tx |-> <<>>, wrote |-> FALSE, orderId |-> 0, email |-> "none",
            productId |-> "none", raw |-> 0, reviewId |-> 0, oldRating |-> 0,
            avg |-> Zero, count |-> 0, target |-> "none",
            quantity |-> 0, itemId |-> 0, resp |-> {}, body |-> Null,
            productExists |-> Null, existingItem |-> Null]

\* errorHandler: the status set by the handler, 500 when none was set.
statusCode(set) == IF set = 0 THEN 500 ELSE set

\* A slot is free for a new request when it handles none or has answered.  The
\* route's protect middleware has found the caller among the users.
Free(r) == req[r].pc \in {"idle", "done"}

\* product.findUnique({ where: { id } }) finds a row.
Exists(id) == id \in Products /\ ~product[id].deleted

\* ------------------------------------------------------- createOrder
\* cart.findUnique({ where: { userId }, include: { items: { include: { product } } } })
CartOf(u) == IF \E c \in carts : c.userId = u
             THEN CHOOSE c \in carts : c.userId = u ELSE Null

CartSnapshot(c) ==
  LET rows == SortById({i \in cartItems : i.cartId = c.id})
  IN [k \in DOMAIN rows |->
        [itemId |-> rows[k].id, productId |-> rows[k].productId,
         quantity |-> rows[k].quantity,
         name |-> product[rows[k].productId].name,
         price |-> product[rows[k].productId].price,
         stock |-> product[rows[k].productId].stock]]

\* Lines 34-37: there is no cart, or it has no items.
EmptyCartOnlyMissing(c, items) == c = Null
EmptyCart(c, items) == c = Null \/ Len(items) = 0

\* "Check if all items are in stock": the line that fails the check, if any.
OutOfStockOffByOne(item) == item.stock + 1 < item.quantity
OutOfStock(item) == item.stock < item.quantity

\* Lines 39-45: the validation loop only reads the snapshot; it has written
\* nothing when it throws.
RECURSIVE DecrementWhileValidating(_)
DecrementWhileValidating(items) ==
  IF items = <<>> \/ OutOfStock(Head(items)) THEN <<>>
  ELSE <<[op |-> "product.update", productId |-> Head(items).productId,
          stock |-> Head(items).stock - Head(items).quantity]>>
         \o DecrementWhileValidating(Tail(items))
ValidationWrites(items) == <<>>

Total(items) == SumSeq([k \in DOMAIN items |-> items[k].price * items[k].quantity])

\* The stock value written for a line: computed from the snapshot read with the cart.
NewStock(item) == item.stock - item.quantity

\* Lines 56-68: the Order row; status and paymentStatus take the schema's defaults.
OrderRowPaid(id, q) ==
  [id |-> id, userId |-> q.user, total |-> q.total,
   status |-> "PENDING", paymentStatus |-> "PAID"]
OrderRow(id, q) ==
  [id |-> id, userId |-> q.user, total |-> q.total,
   status |-> "PENDING", paymentStatus |-> "PENDING"]

\* Lines 72-80: the OrderItem row of the k-th line, copied from the snapshot.
OrderItemRowLivePrice(id, k, item) ==
  [orderId |-> id, line |-> k, productId |-> item.productId,
   name |-> product[item.productId].name, price |-> product[item.productId].price,
   quantity |-> item.quantity]
OrderItemRow(id, k, item) ==
  [orderId |-> id, line |-> k, productId |-> item.productId,
   name |-> item.name, price |-> item.price, quantity |-> item.quantity]

\* The writes of the transaction callback, in program order.
TxWrites(r, id) ==
  LET q == req[r]
      orderRow == OrderRow(id, q)
      line(k) == <<[op |-> "orderItem.create",
                    row |-> OrderItemRow(id, k, q.items[k])],
                   [op |-> "product.update",
                    productId |-> q.items[k].productId,
                    stock |-> NewStock(q.items[k])]>>
      RECURSIVE lines(_)
      lines(k) == IF k > Len(q.items) THEN <<>> ELSE line(k) \o lines(k + 1)
  IN <<[op |-> "order.create", row |-> orderRow]>>
       \o lines(1)
       \o <<[op |-> "cartItem.deleteMany",
             ids |-> {i.id : i \in {x \in cartItems : x.cartId = q.cartId}}]>>

\* What a sequence of writes does to each table once it is made durable.
OrdersAfter(ws) == orders \cup {w.row : w \in {x \in Range(ws) : x.op = "order.create"}}
OrderItemsAfter(ws) ==
  orderItems \cup {w.row : w \in {x \in Range(ws) : x.op = "orderItem.create"}}
CartItemsKept(ws) == cartItems
CartItemsAfter(ws) ==
  {i \in cartItems :
     \A w \in {x \in Range(ws) : x.op = "cartItem.deleteMany"} : i.id \notin w.ids}
RECURSIVE ProductAfter(_, _)
ProductAfter(ws, prod) ==
  IF ws = <<>> THEN prod
  ELSE LET w == Head(ws)
       IN ProductAfter(Tail(ws),
            IF w.op = "product.update"
            THEN [prod EXCEPT ![w.productId].stock = w.stock] ELSE prod)

\* prisma.$transaction: what survives of the writes made before a failure.
RollbackLeaksWrites(ws) == ws
Rollback(ws) == <<>>

\* The try/catch around sendOrderConfirmationEmail: the status of the response
\* once the notification has settled.
StatusAfterEmailRethrow(outcome) == IF outcome = "threw" THEN 0 ELSE 201
StatusAfterEmail(outcome) == 201

\* A finished request: the response sent; the handler's locals are gone.
Done(q, set, err) ==
  [IdleReq EXCEPT !.kind = q.kind, !.pc = "done", !.user = q.user,
                  !.status = statusCode(set), !.error = err,
                  !.orderId = q.orderId, !.email = q.email, !.wrote = q.wrote,
                  !.productId = q.productId, !.reviewId = q.reviewId,
                  !.target = q.target, !.resp = q.resp,
                  !.productExists = q.productExists]

\* Lines 22-51: load the cart, reject an empty cart, validate stock, price the order.
createOrder_ReadCart(r, u) ==
  /\ Free(r)
  /\ u \in users
  /\ started' = started + 1
  /\ LET c == CartOf(u)
         items == IF c = Null THEN <<>> ELSE CartSnapshot(c)
         q == [IdleReq EXCEPT !.kind = "createOrder", !.user = u]
     IN IF EmptyCart(c, items)
        THEN req' = [req EXCEPT ![r] = Done(q, 400, "EmptyCart")]
        ELSE IF \E k \in DOMAIN items : OutOfStock(items[k])
        THEN req' = [req EXCEPT ![r] = Done(q, 400, "OutOfStock")]
        ELSE req' = [req EXCEPT ![r] = [q EXCEPT !.pc = "tx", !.cartId = c.id,
                       !.items = items, !.total = Total(items)]]
  /\ product' = IF CartOf(u) = Null THEN product
                ELSE ProductAfter(ValidationWrites(CartSnapshot(CartOf(u))), product)
  /\ UNCHANGED <<users, carts, cartItems, orders, orderItems, reviews, nextId, stock0>>

\* Lines 54-96: the transaction callback runs to its end; its writes stay private
\* to the transaction until it commits.
createOrder_TxBody(r) ==
  /\ req[r].pc = "tx"
  /\ req' = [req EXCEPT ![r].pc = "commit", ![r].tx = TxWrites(r, nextId),
                        ![r].orderId = nextId]
  /\ nextId' = nextId + 1
  /\ UNCHANGED <<db, started, stock0>>

\* Lines 54-97 and 127-128: a write of the callback throws (a foreign key, a
\* timeout, a lost connection) after k writes were made; the transaction rolls
\* back and the error reaches the handler's catch, which hands it to errorHandler.
createOrder_TxFails(r) ==
  /\ req[r].pc = "tx"
  /\ \E k \in 0..(Len(TxWrites(r, nextId)) - 1) :
       LET kept == Rollback(SubSeq(TxWrites(r, nextId), 1, k))
       IN /\ orders' = OrdersAfter(kept)
          /\ orderItems' = OrderItemsAfter(kept)
          /\ product' = ProductAfter(kept, product)
          /\ cartItems' = CartItemsAfter(kept)
          /\ req' = [req EXCEPT ![r] =
                       Done([req[r] EXCEPT !.wrote = (k > 0)], 0, "TransactionFailed")]
  /\ UNCHANGED <<users, carts, reviews, nextId, started, stock0>>

\* Order.user and OrderItem.product are required relations: the rows the
\* transaction references must still be there when it commits.
ForeignKeysHold(q) ==
  /\ q.user \in users
  /\ \A k \in DOMAIN q.items : Exists(q.items[k].productId)

\* Line 97: the callback returned; the transaction commits all its writes at once,
\* or none when a referenced user or product was deleted in the meantime.
createOrder_Commit(r) ==
  /\ req[r].pc = "commit"
  /\ IF ForeignKeysHold(req[r])
     THEN /\ orders' = OrdersAfter(req[r].tx)
          /\ orderItems' = OrderItemsAfter(req[r].tx)
          /\ product' = ProductAfter(req[r].tx, product)
          /\ cartItems' = CartItemsAfter(req[r].tx)
          /\ req' = [req EXCEPT ![r].pc = "committed", ![r].tx = <<>>,
                                ![r].items = <<>>, ![r].total = 0, ![r].cartId = 0]
     ELSE /\ req' = [req EXCEPT ![r] = Done(req[r], 0, "ForeignKey")]
          /\ UNCHANGED <<orders, orderItems, product, cartItems>>
  /\ UNCHANGED <<users, carts, reviews, nextId, started, stock0>>

\* Where the handler calls sendOrderConfirmationEmail: after `await
\* prisma.$transaction(...)` has returned the order.
MaySendEmailBeforeCommit(q) == q.pc \in {"commit", "committed"}
MaySendEmail(q) == q.pc = "committed"

\* Lines 99-119: reload the complete order and call the notification collaborator.
createOrder_SendEmail(r) ==
  /\ MaySendEmail(req[r])
  /\ req' = [req EXCEPT ![r].pc = "email", ![r].email = "pending"]
  /\ UNCHANGED <<db, nextId, started, stock0>>

\* Lines 119-126: the notification settles (resolves or throws); the handler logs
\* and answers.
createOrder_Respond(r, outcome) ==
  /\ req[r].pc = "email"
  /\ LET s == StatusAfterEmail(outcome)
     IN req' = [req EXCEPT ![r] =
                  Done([req[r] EXCEPT !.email = outcome], s,
                       IF s = 0 THEN "EmailFailed" ELSE "none")]
  /\ UNCHANGED <<db, nextId, started, stock0>>

\* ------------------------------------------------------- reviews
\* A rating as it arrives in the request body: a decimal numeral, held in tenths
\* (25 is "2.5", 70 is "7"); 0 stands for a body without rating.
RawRatings == {10, 25, 70}
\* parseInt: the integer part of the numeral.
parseInt(raw) == raw \div 10
\* `rating ? ... : ...`: whether the body's rating is truthy.
Truthy(raw) == raw # 0

ReviewsOf(p) == {v \in reviews : v.productId = p}
ReviewById(id) == IF \E v \in reviews : v.id = id
                  THEN CHOOSE v \in reviews : v.id = id ELSE Null

\* reviews.reduce((acc, item) => acc + item.rating, 0) / reviews.length
avgRating(list) == Div(SumSeq([k \in DOMAIN list |-> list[k].rating]), Len(list))

\* @@unique([userId, productId]) on Review: whether the store accepts the row.
UniqueAnyReview(u, p) == TRUE
UniqueReview(u, p) == ~\E v \in reviews : v.userId = u /\ v.productId = p

\* The owner-or-administrator check of updateReview and deleteReview.
MayChangeAnyone(actor, review) == TRUE
MayChange(actor, review) == review.userId = actor \/ actor \in Admins

\* createProductReview, lines 791-804: the product lookup.  id is a product or an
\* id that names none.
createProductReview_FindProduct(r, u, id, raw) ==
  /\ Free(r)
  /\ u \in users
  /\ started' = started + 1
  /\ LET q == [IdleReq EXCEPT !.kind = "createProductReview", !.user = u,
                              !.productId = id, !.raw = raw]
     IN IF ~Exists(id)
        THEN req' = [req EXCEPT ![r] = Done(q, 404, "ProductNotFound")]
        ELSE req' = [req EXCEPT ![r] = [q EXCEPT !.pc = "findReview"]]
  /\ UNCHANGED <<db, nextId, stock0>>

\* Lines 806-819: has this user already reviewed the product?
createProductReview_FindReview(r) ==
  /\ req[r].kind = "createProductReview" /\ req[r].pc = "findReview"
  /\ IF \E v \in reviews : v.userId = req[r].user /\ v.productId = req[r].productId
     THEN req' = [req EXCEPT ![r] = Done(req[r], 400, "AlreadyReviewed")]
     ELSE req' = [req EXCEPT ![r].pc = "create"]
  /\ UNCHANGED <<db, nextId, started, stock0>>

\* Lines 821-834: review.create.  The store rejects a second row for the same
\* (userId, productId) and a row whose user is gone; the handler sets no status
\* for either.
createProductReview_Create(r) ==
  /\ req[r].kind = "createProductReview" /\ req[r].pc = "create"
  /\ IF ~UniqueReview(req[r].user, req[r].productId)
     THEN /\ req' = [req EXCEPT ![r] = Done(req[r], 0, "UniqueConstraint")]
          /\ UNCHANGED <<reviews, nextId>>
     ELSE IF req[r].user \notin users \/ ~Exists(req[r].productId)
     THEN /\ req' = [req EXCEPT ![r] = Done(req[r], 0, "ForeignKey")]
          /\ UNCHANGED <<reviews, nextId>>
     ELSE /\ reviews' = reviews \cup
                 {[id |-> nextId, userId |-> req[r].user,
                   productId |-> req[r].productId, rating |-> parseInt(req[r].raw)]}
          /\ nextId' = nextId + 1
          /\ req' = [req EXCEPT ![r].pc = "findMany", ![r].reviewId = nextId]
  /\ UNCHANGED <<users, product, carts, cartItems, orders, orderItems, started, stock0>>

\* Lines 836-841 (create), 155-159 (update), 207-212 (delete): read the product's
\* reviews and average them.
Review_FindMany(r) ==
  /\ req[r].kind \in {"createProductReview", "updateReview", "deleteReview"}
  /\ req[r].pc = "findMany"
  /\ LET list == SortById(ReviewsOf(req[r].productId))
     IN req' = [req EXCEPT ![r].pc = "updateProduct",
                           ![r].avg = avgRating(list), ![r].count = Len(list)]
  /\ UNCHANGED <<db, nextId, started, stock0>>

\* What each handler writes to the product from the list it read.
\* createProductReview (lines 843-849): rating and reviewCount.
\* updateReview (lines 161-166): rating only.
\* deleteReview (lines 211-230): rating and reviewCount, both 0 for an empty list.
Aggregate(kind, row, avg, count) ==
  IF kind = "updateReview" THEN [row EXCEPT !.rating = avg]
  ELSE IF kind = "deleteReview" /\ count = 0
  THEN [row EXCEPT !.rating = Zero, !.reviewCount = 0]
  ELSE [row EXCEPT !.rating = avg, !.reviewCount = count]

\* product.update with the aggregate, then the response.  The store does not
\* accept NaN (the average of an empty list) for a Float column.
Review_UpdateProduct(r) ==
  /\ req[r].kind \in {"createProductReview", "updateReview", "deleteReview"}
  /\ req[r].pc = "updateProduct"
  /\ LET row == Aggregate(req[r].kind, product[req[r].productId],
                          req[r].avg, req[r].count)
     IN IF row.rating = NaN
        THEN /\ req' = [req EXCEPT ![r] = Done(req[r], 0, "InvalidValue")]
             /\ UNCHANGED product
        ELSE IF ~Exists(req[r].productId)
        THEN /\ req' = [req EXCEPT ![r] = Done(req[r], 0, "RecordNotFound")]
             /\ UNCHANGED product
        ELSE /\ product' = [product EXCEPT ![req[r].productId] = row]
             /\ req' = [req EXCEPT ![r] =
                  Done(req[r], IF req[r].kind = "createProductReview" THEN 201 ELSE 200,
                       "none")]
  /\ UNCHANGED <<users, carts, cartItems, orders, orderItems, reviews, nextId,
                 started, stock0>>

\* updateReview, lines 124-141, and deleteReview, lines 185-199: look the review
\* up, 404 when there is none, 403 when the caller is neither owner nor admin.
Review_Find(r, kind, actor, id, raw) ==
  /\ Free(r)
  /\ actor \in users
  /\ kind \in {"updateReview", "deleteReview"}
  /\ kind = "deleteReview" => raw = 0
  /\ started' = started + 1
  /\ LET review == ReviewById(id)
         q == [IdleReq EXCEPT !.kind = kind, !.user = actor, !.reviewId = id,
                              !.raw = raw]
     IN IF review = Null
        THEN req' = [req EXCEPT ![r] = Done(q, 404, "ReviewNotFound")]
        ELSE IF ~MayChange(actor, review)
        THEN req' = [req EXCEPT ![r] = Done(q, 403, "NotAuthorized")]
        ELSE req' = [req EXCEPT ![r] =
                       [q EXCEPT !.pc = "write", !.productId = review.productId,
                                 !.oldRating = review.rating]]
  /\ UNCHANGED <<db, nextId, stock0>>

\* updateReview, lines 143-170: write the review; recompute the product's rating
\* only when the body's rating differs from the rating read at the lookup.
updateReview_Update(r) ==
  /\ req[r].kind = "updateReview" /\ req[r].pc = "write"
  /\ LET review == ReviewById(req[r].reviewId)
         rating == IF Truthy(req[r].raw) THEN parseInt(req[r].raw) ELSE req[r].oldRating
     IN IF review = Null
        THEN /\ req' = [req EXCEPT ![r] = Done(req[r], 0, "RecordNotFound")]
             /\ UNCHANGED reviews
        ELSE /\ reviews' = (reviews \ {review}) \cup {[review EXCEPT !.rating = rating]}
             /\ IF Truthy(req[r].raw) /\ parseInt(req[r].raw) # req[r].oldRating
                THEN req' = [req EXCEPT ![r].pc = "findMany"]
                ELSE req' = [req EXCEPT ![r] = Done(req[r], 200, "none")]
  /\ UNCHANGED <<users, product, carts, cartItems, orders, orderItems, nextId,
                 started, stock0>>

\* deleteReview, lines 201-204: delete the review.
deleteReview_Delete(r) ==
  /\ req[r].kind = "deleteReview" /\ req[r].pc = "write"
  /\ LET review == ReviewById(req[r].reviewId)
     IN IF review = Null
        THEN /\ req' = [req EXCEPT ![r] = Done(req[r], 0, "RecordNotFound")]
             /\ UNCHANGED reviews
        ELSE /\ reviews' = reviews \ {review}
             /\ req' = [req EXCEPT ![r].pc = "findMany"]
  /\ UNCHANGED <<users, product, carts, cartItems, orders, orderItems, nextId,
                 started, stock0>>

\* ------------------------------------------------------- deleteUser
\* Lines 159-176: look the user up; an administrator cannot delete itself.
deleteUser_Find(r, actor, id) ==
  /\ Free(r)
  /\ actor \in users \cap Admins
  /\ started' = started + 1
  /\ LET q == [IdleReq EXCEPT !.kind = "deleteUser", !.user = actor, !.target = id]
     IN IF id \notin users
        THEN req' = [req EXCEPT ![r] = Done(q, 404, "UserNotFound")]
        ELSE IF id = actor
        THEN req' = [req EXCEPT ![r] = Done(q, 400, "CannotDeleteSelf")]
        ELSE req' = [req EXCEPT ![r] = [q EXCEPT !.pc = "deleteUser"]]
  /\ UNCHANGED <<db, nextId, stock0>>

\* The referential action of Order.user: the relation declares no onDelete,
\* which for a required relation is Restrict.
OrderOnDeleteCascade == "Cascade"
OrderOnDelete == "Restrict"

\* Lines 178-182: user.delete.  The schema cascades the deletion to the user's
\* cart (and its items) and reviews; Order.user has no onDelete, so a user with
\* orders cannot be deleted.
deleteUser_Delete(r) ==
  /\ req[r].kind = "deleteUser" /\ req[r].pc = "deleteUser"
  /\ LET id == req[r].target
     IN IF id \notin users
        THEN /\ req' = [req EXCEPT ![r] = Done(req[r], 0, "RecordNotFound")]
             /\ UNCHANGED <<users, carts, cartItems, reviews, orders, orderItems>>
        ELSE IF OrderOnDelete = "Restrict" /\ \E o \in orders : o.userId = id
        THEN /\ req' = [req EXCEPT ![r] = Done(req[r], 0, "ForeignKey")]
             /\ UNCHANGED <<users, carts, cartItems, reviews, orders, orderItems>>
        ELSE /\ users' = users \ {id}
             /\ orders' = {o \in orders : o.userId # id}
             /\ orderItems' = {i \in orderItems :
                                 \A o \in orders : o.userId = id => i.orderId # o.id}
             /\ carts' = {c \in carts : c.userId # id}
             /\ cartItems' = {i \in cartItems :
                                \A c \in carts : c.userId = id => i.cartId # c.id}
             /\ reviews' = {v \in reviews : v.userId # id}
             /\ req' = [req EXCEPT ![r] = Done(req[r], 200, "none")]
  /\ UNCHANGED <<product, nextId, started, stock0>>

\* ------------------------------------------------------- cart
\* The items of a cart as a response carries them: product and quantity.
CartItemsOf(c) == {<<i.productId, i.quantity>> : i \in {x \in cartItems : x.cartId = c.id}}

\* Lines 47-52: the items in the response for a cart that was just created.
NewCartItemsPlaceholder(newCart) == {<<"none", 0>>}
NewCartItems(newCart) == {}

\* cart.create({ data: { userId } }): Cart.userId is unique and references a User.
\* The outcome is "ok" or the store's error.
CartCreate(u) ==
  IF \E c \in carts : c.userId = u THEN "UniqueConstraint"
  ELSE IF u \notin users THEN "ForeignKey"
  ELSE "ok"

\* getCart, lines 11-36 and 55-71: look the cart up; answer with its items when
\* there is one.
getCart_Find(r, u) ==
  /\ Free(r)
  /\ u \in users
  /\ started' = started + 1
  /\ LET cart == CartOf(u)
         q == [IdleReq EXCEPT !.kind = "getCart", !.user = u]
     IN IF cart = Null
        THEN req' = [req EXCEPT ![r] = [q EXCEPT !.pc = "createCart"]]
        ELSE req' = [req EXCEPT ![r] =
                       Done([q EXCEPT !.resp = CartItemsOf(cart)], 200, "none")]
  /\ UNCHANGED <<db, nextId, stock0>>

\* Lines 38-45: the cart items after cart.create({ data: { userId } }); the
\* call has no nested write, so it creates no item.
CartCreateSeedsItem(newCart) ==
  cartItems \cup {[id |-> newCart.id + 1, cartId |-> newCart.id,
                   productId |-> "A", quantity |-> 1]}
CartCreateItems(newCart) == cartItems

\* getCart, lines 37-53: create the cart and answer with no items.
getCart_Create(r) ==
  /\ req[r].kind = "getCart" /\ req[r].pc = "createCart"
  /\ IF CartCreate(req[r].user) = "ok"
     THEN LET newCart == [id |-> nextId, userId |-> req[r].user]
          IN /\ carts' = carts \cup {newCart}
             /\ cartItems' = CartCreateItems(newCart)
             /\ nextId' = nextId + 1
             /\ req' = [req EXCEPT ![r] =
                          Done([req[r] EXCEPT !.resp = NewCartItems(newCart)], 200, "none")]
     ELSE /\ req' = [req EXCEPT ![r] = Done(req[r], 0, CartCreate(req[r].user))]
          /\ UNCHANGED <<carts, cartItems, nextId>>
  /\ UNCHANGED <<users, product, orders, orderItems, reviews, started, stock0>>

\* addToCart, lines 82-105: the product must exist and have at least the
\* requested quantity in stock.
addToCart_FindProduct(r, u, productId, quantity) ==
  /\ Free(r)
  /\ u \in users
  /\ started' = started + 1
  /\ LET q == [IdleReq EXCEPT !.kind = "addToCart", !.user = u,
                              !.productId = productId, !.quantity = quantity]
     IN IF ~Exists(productId)
        THEN req' = [req EXCEPT ![r] = Done(q, 404, "ProductNotFound")]
        ELSE IF product[productId].stock < quantity
        THEN req' = [req EXCEPT ![r] = Done(q, 400, "OutOfStock")]
        ELSE req' = [req EXCEPT ![r] = [q EXCEPT !.pc = "findCart"]]
  /\ UNCHANGED <<db, nextId, stock0>>

\* addToCart, lines 107-112: look the buyer's cart up.
addToCart_FindCart(r) ==
  /\ req[r].kind = "addToCart" /\ req[r].pc = "findCart"
  /\ LET cart == CartOf(req[r].user)
     IN IF cart = Null
        THEN req' = [req EXCEPT ![r].pc = "createCart"]
        ELSE req' = [req EXCEPT ![r].pc = "findItem", ![r].cartId = cart.id]
  /\ UNCHANGED <<db, nextId, started, stock0>>

\* addToCart, lines 112-118: create the cart.
addToCart_CreateCart(r) ==
  /\ req[r].kind = "addToCart" /\ req[r].pc = "createCart"
  /\ IF CartCreate(req[r].user) = "ok"
     THEN /\ carts' = carts \cup {[id |-> nextId, userId |-> req[r].user]}
          /\ nextId' = nextId + 1
          /\ req' = [req EXCEPT ![r].pc = "findItem", ![r].cartId = nextId]
     ELSE /\ req' = [req EXCEPT ![r] = Done(req[r], 0, CartCreate(req[r].user))]
          /\ UNCHANGED <<carts, nextId>>
  /\ UNCHANGED <<users, product, cartItems, orders, orderItems, reviews, started, stock0>>

\* cartItem.findUnique by (cartId, productId).
CartItemOf(cartId, productId) ==
  IF \E i \in cartItems : i.cartId = cartId /\ i.productId = productId
  THEN CHOOSE i \in cartItems : i.cartId = cartId /\ i.productId = productId
  ELSE Null
\* cartItem.findUnique by id.
CartItemById(id) ==
  IF \E i \in cartItems : i.id = id THEN CHOOSE i \in cartItems : i.id = id ELSE Null
CartById(id) ==
  IF \E c \in carts : c.id = id THEN CHOOSE c \in carts : c.id = id ELSE Null

\* addToCart, lines 120-128: is the product already in the cart?
addToCart_FindItem(r) ==
  /\ req[r].kind = "addToCart" /\ req[r].pc = "findItem"
  /\ req' = [req EXCEPT ![r].pc = "write",
                        ![r].existingItem = CartItemOf(req[r].cartId, req[r].productId)]
  /\ UNCHANGED <<db, nextId, started, stock0>>

\* @@unique([cartId, productId]) on CartItem: whether the store accepts the row.
UniqueAnyCartItem(cartId, productId) == TRUE
UniqueCartItem(cartId, productId) == CartItemOf(cartId, productId) = Null

\* addToCart, lines 130-181: add the quantity to the line found, or create the
\* line.
addToCart_Write(r) ==
  /\ req[r].kind = "addToCart" /\ req[r].pc = "write"
  /\ LET q == req[r]
         existingItem == q.existingItem
     IN IF existingItem # Null
        THEN IF CartItemById(existingItem.id) = Null
             THEN /\ req' = [req EXCEPT ![r] = Done(q, 0, "RecordNotFound")]
                  /\ UNCHANGED <<cartItems, nextId>>
             ELSE /\ cartItems' = (cartItems \ {CartItemById(existingItem.id)}) \cup
                       {[CartItemById(existingItem.id) EXCEPT
                           !.quantity = existingItem.quantity + q.quantity]}
                  /\ req' = [req EXCEPT ![r] = Done(q, 201, "none")]
                  /\ UNCHANGED nextId
        ELSE IF ~UniqueCartItem(q.cartId, q.productId)
        THEN /\ req' = [req EXCEPT ![r] = Done(q, 0, "UniqueConstraint")]
             /\ UNCHANGED <<cartItems, nextId>>
        ELSE IF CartById(q.cartId) = Null \/ ~Exists(q.productId)
        THEN /\ req' = [req EXCEPT ![r] = Done(q, 0, "ForeignKey")]
             /\ UNCHANGED <<cartItems, nextId>>
        ELSE /\ cartItems' = cartItems \cup
                  {[id |-> nextId, cartId |-> q.cartId, productId |-> q.productId,
                    quantity |-> q.quantity]}
             /\ nextId' = nextId + 1
             /\ req' = [req EXCEPT ![r] = Done([q EXCEPT !.itemId = nextId], 201, "none")]
  /\ UNCHANGED <<users, product, carts, orders, orderItems, reviews, started, stock0>>

\* Lines 204-227: the cart items while updateCartItem checks the line: the
\* lookup only reads, and cartItem.update comes after the last check.
WriteBeforeStockCheck(cartItem, quantity) ==
  IF cartItem = Null \/ quantity < 1 THEN cartItems
  ELSE (cartItems \ {cartItem}) \cup {[cartItem EXCEPT !.quantity = quantity]}
CartItemsWhileChecking(cartItem, quantity) == cartItems

\* updateCartItem, lines 192-227: the quantity must be at least 1, the line must
\* exist and belong to the caller, and the product must have the quantity in
\* stock.
updateCartItem_Find(r, u, id, quantity) ==
  /\ Free(r)
  /\ u \in users
  /\ started' = started + 1
  /\ LET q == [IdleReq EXCEPT !.kind = "updateCartItem", !.user = u, !.itemId = id,
                              !.quantity = quantity]
         cartItem == CartItemById(id)
     IN IF quantity = 0 \/ quantity < 1
        THEN req' = [req EXCEPT ![r] = Done(q, 400, "QuantityBelowOne")]
        ELSE IF cartItem = Null
        THEN req' = [req EXCEPT ![r] = Done(q, 404, "CartItemNotFound")]
        ELSE IF CartById(cartItem.cartId).userId # u
        THEN req' = [req EXCEPT ![r] = Done(q, 403, "NotAuthorized")]
        ELSE IF product[cartItem.productId].stock < quantity
        THEN req' = [req EXCEPT ![r] = Done(q, 400, "OutOfStock")]
        ELSE req' = [req EXCEPT ![r] = [q EXCEPT !.pc = "write",
                                                 !.productId = cartItem.productId]]
  /\ cartItems' = CartItemsWhileChecking(CartItemById(id), quantity)
  /\ UNCHANGED <<users, product, carts, orders, orderItems, reviews, nextId, stock0>>

\* updateCartItem, lines 229-249: write the quantity.
updateCartItem_Write(r) ==
  /\ req[r].kind = "updateCartItem" /\ req[r].pc = "write"
  /\ LET cartItem == CartItemById(req[r].itemId)
     IN IF cartItem = Null
        THEN /\ req' = [req EXCEPT ![r] = Done(req[r], 0, "RecordNotFound")]
             /\ UNCHANGED cartItems
        ELSE /\ cartItems' = (cartItems \ {cartItem}) \cup
                                {[cartItem EXCEPT !.quantity = req[r].quantity]}
             /\ req' = [req EXCEPT ![r] = Done(req[r], 200, "none")]
  /\ UNCHANGED <<users, product, carts, orders, orderItems, reviews, nextId,
                 started, stock0>>

\* removeFromCart, lines 260-281: the line must exist and belong to the caller.
removeFromCart_Find(r, u, id) ==
  /\ Free(r)
  /\ u \in users
  /\ started' = started + 1
  /\ LET q == [IdleReq EXCEPT !.kind = "removeFromCart", !.user = u, !.itemId = id]
         cartItem == CartItemById(id)
     IN IF cartItem = Null
        THEN req' = [req EXCEPT ![r] = Done(q, 404, "CartItemNotFound")]
        ELSE IF CartById(cartItem.cartId).userId # u
        THEN req' = [req EXCEPT ![r] = Done(q, 403, "NotAuthorized")]
        ELSE req' = [req EXCEPT ![r] = [q EXCEPT !.pc = "write"]]
  /\ UNCHANGED <<db, nextId, stock0>>

\* removeFromCart, lines 283-288: delete the line.
removeFromCart_Delete(r) ==
  /\ req[r].kind = "removeFromCart" /\ req[r].pc = "write"
  /\ LET cartItem == CartItemById(req[r].itemId)
     IN IF cartItem = Null
        THEN /\ req' = [req EXCEPT ![r] = Done(req[r], 0, "RecordNotFound")]
             /\ UNCHANGED cartItems
        ELSE /\ cartItems' = cartItems \ {cartItem}
             /\ req' = [req EXCEPT ![r] = Done(req[r], 200, "none")]
  /\ UNCHANGED <<users, product, carts, orders, orderItems, reviews, nextId,
                 started, stock0>>

\* clearCart, lines 299-308: look the cart up; nothing to clear when there is none.
clearCart_Find(r, u) ==
  /\ Free(r)
  /\ u \in users
  /\ started' = started + 1
  /\ LET cart == CartOf(u)
         q == [IdleReq EXCEPT !.kind = "clearCart", !.user = u]
     IN IF cart = Null
        THEN req' = [req EXCEPT ![r] = Done(q, 200, "none")]
        ELSE req' = [req EXCEPT ![r] = [q EXCEPT !.pc = "write", !.cartId = cart.id]]
  /\ UNCHANGED <<db, nextId, stock0>>

\* clearCart, lines 310-315: delete all lines of the cart.
clearCart_DeleteMany(r) ==
  /\ req[r].kind = "clearCart" /\ req[r].pc = "write"
  /\ cartItems' = {i \in cartItems : i.cartId # req[r].cartId}
  /\ req' = [req EXCEPT ![r] = Done(req[r], 200, "none")]
  /\ UNCHANGED <<users, product, carts, orders, orderItems, reviews, nextId,
                 started, stock0>>

\* ------------------------------------------------------- updateProduct
\* A field of the request body: <<>> when the body does not have it, <<v>> when
\* it does.
Supplied(field) == field # <<>>

\* Lines 687-693 (and 615-619 of createProduct): the slug generated from a name:
\* lower case, punctuation removed, blanks turned into dashes.
Slug(name) ==
  CASE name = "A" -> "a"
    [] name = "B" -> "b"
    [] name = "Z" -> "z"
    [] OTHER -> "none"

\* What updateProduct writes to the tables other than Product: nothing.
RewriteOrderItems(id, row) ==
  {IF i.productId = id THEN [i EXCEPT !.name = row.name, !.price = row.price] ELSE i :
     i \in orderItems}
OrderItemsAfterUpdate(id, row) == orderItems

\* Lines 655-685: read the product, 404 when there is none.
updateProduct_Find(r, actor, id, body) ==
  /\ Free(r)
  /\ actor \in users \cap Admins
  /\ started' = started + 1
  /\ LET q == [IdleReq EXCEPT !.kind = "updateProduct", !.user = actor,
                              !.productId = id, !.body = body]
     IN IF ~Exists(id)
        THEN req' = [req EXCEPT ![r] = Done(q, 404, "ProductNotFound")]
        ELSE req' = [req EXCEPT ![r] = [q EXCEPT !.pc = "update",
                                                 !.productExists = product[id]]]
  /\ UNCHANGED <<db, nextId, stock0>>

\* Lines 687-724: product.update; a field the body lacks is written back from
\* the row read at the lookup.  Product.slug is unique.
updateProduct_Update(r) ==
  /\ req[r].kind = "updateProduct" /\ req[r].pc = "update"
  /\ LET id == req[r].productId
         body == req[r].body
         old == req[r].productExists
         row == [product[id] EXCEPT
                   !.name = IF Supplied(body.name) THEN body.name[1] ELSE old.name,
                   !.slug = IF Supplied(body.name) /\ body.name[1] # old.name
                            THEN Slug(body.name[1]) ELSE old.slug,
                   !.price = IF Supplied(body.price) THEN body.price[1] ELSE old.price,
                   !.stock = IF Supplied(body.stock) THEN body.stock[1] ELSE old.stock]
     IN IF ~Exists(id)
        THEN /\ req' = [req EXCEPT ![r] = Done(req[r], 0, "RecordNotFound")]
             /\ UNCHANGED <<product, orderItems>>
        ELSE IF \E p \in Products \ {id} : Exists(p) /\ product[p].slug = row.slug
        THEN /\ req' = [req EXCEPT ![r] = Done(req[r], 0, "UniqueConstraint")]
             /\ UNCHANGED <<product, orderItems>>
        ELSE /\ product' = [product EXCEPT ![id] = row]
             /\ orderItems' = OrderItemsAfterUpdate(id, row)
             /\ req' = [req EXCEPT ![r] = Done(req[r], 200, "none")]
  /\ UNCHANGED <<users, carts, cartItems, orders, reviews, nextId, started, stock0>>

\* ------------------------------------------------------- deleteProduct
\* The referential action of OrderItem.product: the relation declares no
\* onDelete, which for a required relation is Restrict.
OrderItemOnDeleteCascade == "Cascade"
OrderItemOnDelete == "Restrict"

\* Lines 731-744: read the product, 404 when there is none.
deleteProduct_Find(r, actor, id) ==
  /\ Free(r)
  /\ actor \in users \cap Admins
  /\ started' = started + 1
  /\ LET q == [IdleReq EXCEPT !.kind = "deleteProduct", !.user = actor,
                              !.productId = id]
     IN IF ~Exists(id)
        THEN req' = [req EXCEPT ![r] = Done(q, 404, "ProductNotFound")]
        ELSE req' = [req EXCEPT ![r] = [q EXCEPT !.pc = "delete"]]
  /\ UNCHANGED <<db, nextId, stock0>>

\* Lines 746-754: product.delete.  CartItem.product and Review.product cascade;
\* a product referenced by an OrderItem cannot be deleted.
deleteProduct_Delete(r) ==
  /\ req[r].kind = "deleteProduct" /\ req[r].pc = "delete"
  /\ LET id == req[r].productId
     IN IF ~Exists(id)
        THEN /\ req' = [req EXCEPT ![r] = Done(req[r], 0, "RecordNotFound")]
             /\ UNCHANGED <<product, cartItems, reviews, orderItems>>
        ELSE IF OrderItemOnDelete = "Restrict" /\ \E i \in orderItems : i.productId = id
        THEN /\ req' = [req EXCEPT ![r] = Done(req[r], 0, "ForeignKey")]
             /\ UNCHANGED <<product, cartItems, reviews, orderItems>>
        ELSE /\ product' = [product EXCEPT ![id].deleted = TRUE]
             /\ cartItems' = {i \in cartItems : i.productId # id}
             /\ reviews' = {v \in reviews : v.productId # id}
             /\ orderItems' = {i \in orderItems : i.productId # id}
             /\ req' = [req EXCEPT ![r] = Done(req[r], 200, "none")]
  /\ UNCHANGED <<users, carts, orders, nextId, started, stock0>>

\* ------------------------------------------------------- order status
\* order.findUnique({ where: { id } })
OrderById(id) ==
  IF \E o \in orders : o.id = id THEN CHOOSE o \in orders : o.id = id ELSE Null

\* Lines 212-213 and 251-252: the values the handlers accept.
validStatuses == {"PENDING", "PROCESSING", "SHIPPED", "DELIVERED", "CANCELLED", "RETURNED"}
validPaymentStatuses == {"PENDING", "PAID", "FAILED", "REFUNDED"}

\* Lines 230-233 and 269-272: order.update writes the one field in `data`.
WriteWholeOrder(order, field, value) ==
  [id |-> order.id, userId |-> order.userId, total |-> order.total,
   status |-> IF field = "status" THEN value ELSE "PENDING",
   paymentStatus |-> IF field = "paymentStatus" THEN value ELSE "PENDING"]
OrderUpdate(order, field, value) ==
  IF field = "status" THEN [order EXCEPT !.status = value]
  ELSE [order EXCEPT !.paymentStatus = value]

\* updateOrderStatus, lines 207-228, and updatePaymentStatus, lines 246-267:
\* validate the value, look the order up.
Order_Find(r, kind, actor, id, value) ==
  /\ Free(r)
  /\ actor \in users \cap Admins
  /\ kind \in {"updateOrderStatus", "updatePaymentStatus"}
  /\ started' = started + 1
  /\ LET q == [IdleReq EXCEPT !.kind = kind, !.user = actor, !.orderId = id,
                              !.body = [value |-> value]]
         valid == IF kind = "updateOrderStatus" THEN validStatuses
                  ELSE validPaymentStatuses
     IN IF value \notin valid
        THEN req' = [req EXCEPT ![r] = Done(q, 400, "InvalidStatus")]
        ELSE IF OrderById(id) = Null
        THEN req' = [req EXCEPT ![r] = Done(q, 404, "OrderNotFound")]
        ELSE req' = [req EXCEPT ![r] = [q EXCEPT !.pc = "update"]]
  /\ UNCHANGED <<db, nextId, stock0>>

\* Lines 229-235 and 268-274: order.update, then the response.
Order_Update(r) ==
  /\ req[r].kind \in {"updateOrderStatus", "updatePaymentStatus"}
  /\ req[r].pc = "update"
  /\ LET order == OrderById(req[r].orderId)
         field == IF req[r].kind = "updateOrderStatus" THEN "status" ELSE "paymentStatus"
     IN IF order = Null
        THEN /\ req' = [req EXCEPT ![r] = Done(req[r], 0, "RecordNotFound")]
             /\ UNCHANGED orders
        ELSE /\ orders' = (orders \ {order}) \cup
                            {OrderUpdate(order, field, req[r].body.value)}
             /\ req' = [req EXCEPT ![r] = Done(req[r], 200, "none")]
  /\ UNCHANGED <<users, product, carts, cartItems, orderItems, reviews, nextId,
                 started, stock0>>

\* ------------------------------------------------------- specifications
InitProduct(st) ==
  [p \in Products |->
     [name |-> p, slug |-> IF p = "A" THEN "a" ELSE "b",
      price |-> IF p = "A" THEN 10 ELSE 5, stock |-> st[p],
      rating |-> Zero, reviewCount |-> 0, deleted |-> FALSE]]

InitCommon ==
  /\ users = AllUsers
  /\ orders = {}
  /\ orderItems = {}
  /\ reviews = {}
  /\ req = [r \in Slots |-> IdleReq]
  /\ started = 0

\* Checkout: every buyer has a cart whose lines were accepted at some earlier
\* time, against a stock that other buyers' checkouts may have lowered since.
\* u1's cart holds any lines of A and B, u2's cart any line of A.
InitLines == {<<1, "A">>, <<1, "B">>, <<2, "A">>}
InitCheckout ==
  /\ InitCommon
  /\ \E st \in [Products -> 0..MaxStock] :
       /\ product = InitProduct(st)
       /\ stock0 = st
  /\ carts = {[id |-> 1, userId |-> "u1"], [id |-> 2, userId |-> "u2"]}
  /\ \E qty \in [InitLines -> 0..MaxQty] :
       cartItems =
         {[id |-> 2 * x[1] + (IF x[2] = "A" THEN 1 ELSE 2), cartId |-> x[1],
           productId |-> x[2], quantity |-> qty[x]] :
            x \in {y \in InitLines : qty[y] > 0}}
  /\ nextId = 7

\* Requests arrive at any time and run concurrently; a behaviour starts at most
\* MaxRequests of them, each in a slot of its own.
Admit(r) == r = started + 1

NextCheckout ==
  \E r \in Slots :
    \/ Admit(r) /\ \E u \in Buyers : createOrder_ReadCart(r, u)
    \/ createOrder_TxBody(r)
    \/ createOrder_TxFails(r)
    \/ createOrder_Commit(r)
    \/ createOrder_SendEmail(r)
    \/ \E outcome \in {"sent", "threw"} : createOrder_Respond(r, outcome)

SpecCheckout == InitCheckout /\ [][NextCheckout]_vars

\* The steps of a checkout that wait only for the store: once the awaited
\* database call has settled, the event loop runs the handler's continuation.
\* The step that answers waits for the notification collaborator, which may take
\* any time or never return; nothing makes it happen.
HandlerStep(r) ==
  \/ createOrder_TxBody(r)
  \/ createOrder_Commit(r)
  \/ createOrder_SendEmail(r)

SpecCheckoutLive == SpecCheckout /\ \A r \in Slots : WF_vars(HandlerStep(r))


\* Reviews: an empty review table, no carts.
InitReview ==
  /\ InitCommon
  /\ product = InitProduct([p \in Products |-> 0])
  /\ stock0 = [p \in Products |-> 0]
  /\ carts = {}
  /\ cartItems = {}
  /\ nextId = 1

ProductIds == Products \cup {"X"}
ReviewIds == {v.id : v \in reviews} \cup {nextId}

ReviewStart(r) ==
  \/ \E u \in Buyers, id \in ProductIds, raw \in RawRatings :
       createProductReview_FindProduct(r, u, id, raw)
  \/ \E actor \in AllUsers, id \in ReviewIds, raw \in RawRatings \cup {0} :
       Review_Find(r, "updateReview", actor, id, raw)
  \/ \E actor \in AllUsers, id \in ReviewIds :
       Review_Find(r, "deleteReview", actor, id, 0)

ReviewStep(r) ==
  \/ createProductReview_FindReview(r)
  \/ createProductReview_Create(r)
  \/ updateReview_Update(r)
  \/ deleteReview_Delete(r)
  \/ Review_FindMany(r)
  \/ Review_UpdateProduct(r)

\* Concurrent review requests.
NextReview ==
  \E r \in Slots :
    \/ Admit(r) /\ ReviewStart(r)
    \/ ReviewStep(r)

SpecReview == InitReview /\ [][NextReview]_vars

\* One request at a time: the next one starts when the last has answered.
AdmitSeq(r) == r = 1 /\ started < MaxSeqRequests

NextReviewSeq ==
  \E r \in Slots :
    \/ AdmitSeq(r) /\ ReviewStart(r)
    \/ AdmitSeq(r) /\ \E actor \in Admins, id \in AllUsers : deleteUser_Find(r, actor, id)
    \/ ReviewStep(r)
    \/ deleteUser_Delete(r)

SpecReviewSeq == InitReview /\ [][NextReviewSeq]_vars

\* Catalog: the administrator edits and deletes products while buyers check
\* out.  Every product has MaxStock units; u1's cart holds one A and one B,
\* u2's cart one A.
InitCatalog ==
  /\ InitCommon
  /\ product = InitProduct([p \in Products |-> MaxStock])
  /\ stock0 = [p \in Products |-> MaxStock]
  /\ carts = {[id |-> 1, userId |-> "u1"], [id |-> 2, userId |-> "u2"]}
  /\ cartItems = {[id |-> 3, cartId |-> 1, productId |-> "A", quantity |-> 1],
                  [id |-> 4, cartId |-> 1, productId |-> "B", quantity |-> 1],
                  [id |-> 5, cartId |-> 2, productId |-> "A", quantity |-> 1]}
  /\ nextId = 7

\* The bodies an administrator sends: a new name, a new price, a new stock.
ProductBodies ==
  {[name |-> <<"Z">>, price |-> <<>>, stock |-> <<>>],
   [name |-> <<>>, price |-> <<7>>, stock |-> <<>>],
   [name |-> <<>>, price |-> <<>>, stock |-> <<0>>]}

CatalogStart(r) ==
  \/ \E actor \in Admins, id \in ProductIds, body \in ProductBodies :
       updateProduct_Find(r, actor, id, body)
  \/ \E actor \in Admins, id \in ProductIds : deleteProduct_Find(r, actor, id)

CatalogStep(r) ==
  \/ updateProduct_Update(r)
  \/ deleteProduct_Delete(r)

NextCatalog ==
  \/ NextCheckout
  \/ \E r \in Slots :
       \/ Admit(r) /\ CatalogStart(r)
       \/ CatalogStep(r)

SpecCatalog == InitCatalog /\ [][NextCatalog]_vars

\* Carts: u1 has no cart yet, an empty cart, or a cart with one A; u2 has a cart
\* with one A; every product has MaxStock units.
InitCart ==
  /\ InitCommon
  /\ product = InitProduct([p \in Products |-> MaxStock])
  /\ stock0 = [p \in Products |-> MaxStock]
  /\ \E present \in {{"u2"}, Buyers}, lined \in {{"u2"}, Buyers} :
       /\ lined \subseteq present
       /\ carts = {[id |-> IF u = "u1" THEN 1 ELSE 2, userId |-> u] : u \in present}
       /\ cartItems = {[id |-> IF u = "u1" THEN 3 ELSE 5,
                        cartId |-> IF u = "u1" THEN 1 ELSE 2,
                        productId |-> "A", quantity |-> 1] : u \in lined}
  /\ nextId = 7

\* The quantity of a request body: any number (the default 1 among them).
Quantities == {0, 1, 2}
CartItemIds == {i.id : i \in cartItems} \cup {nextId}

CartStart(r) ==
  \/ \E u \in Buyers : getCart_Find(r, u)
  \/ \E u \in Buyers, id \in ProductIds, quantity \in Quantities :
       addToCart_FindProduct(r, u, id, quantity)
  \/ \E u \in Buyers, id \in CartItemIds, quantity \in Quantities :
       updateCartItem_Find(r, u, id, quantity)
  \/ \E u \in Buyers, id \in CartItemIds : removeFromCart_Find(r, u, id)
  \/ \E u \in Buyers : clearCart_Find(r, u)

CartStep(r) ==
  \/ getCart_Create(r)
  \/ addToCart_FindCart(r)
  \/ addToCart_CreateCart(r)
  \/ addToCart_FindItem(r)
  \/ addToCart_Write(r)
  \/ updateCartItem_Write(r)
  \/ removeFromCart_Delete(r)
  \/ clearCart_DeleteMany(r)

\* Concurrent cart requests and checkouts.
NextCart ==
  \/ NextCheckout
  \/ \E r \in Slots :
       \/ Admit(r) /\ CartStart(r)
       \/ CartStep(r)

SpecCart == InitCart /\ [][NextCart]_vars

\* Cart requests one at a time.
NextCartSeq ==
  \E r \in Slots :
    \/ AdmitSeq(r) /\ CartStart(r)
    \/ CartStep(r)

SpecCartSeq == InitCart /\ [][NextCartSeq]_vars

\* The shop: u1 has a cart with one A and one B, u2 has no cart yet and has
\* reviewed A; B may be sold out.
InitShop ==
  /\ users = AllUsers
  /\ orders = {}
  /\ orderItems = {}
  /\ req = [r \in Slots |-> IdleReq]
  /\ started = 0
  /\ \E b \in {0, MaxStock} :
       /\ stock0 = [p \in Products |-> IF p = "B" THEN b ELSE MaxStock]
       /\ product = [InitProduct(stock0) EXCEPT !["A"].rating = Div(1, 1),
                                                !["A"].reviewCount = 1]
  /\ carts = {[id |-> 1, userId |-> "u1"]}
  /\ cartItems = {[id |-> 3, cartId |-> 1, productId |-> "A", quantity |-> 1],
                  [id |-> 4, cartId |-> 1, productId |-> "B", quantity |-> 1]}
  /\ reviews = {[id |-> 6, userId |-> "u2", productId |-> "A", rating |-> 1]}
  /\ nextId = 7

\* addToCart, updateCartItem and removeFromCart with any buyer and id, and a
\* quantity of 0 or 1; a review request of any buyer with one rating.
ShopQuantities == {0, 1}
ShopRating == 25
ShopStart(r) ==
  \/ \E u \in Buyers, id \in ProductIds, quantity \in ShopQuantities :
       addToCart_FindProduct(r, u, id, quantity)
  \/ \E u \in Buyers, id \in CartItemIds, quantity \in ShopQuantities :
       updateCartItem_Find(r, u, id, quantity)
  \/ \E u \in Buyers, id \in CartItemIds : removeFromCart_Find(r, u, id)
  \/ \E u \in Buyers, id \in ProductIds : createProductReview_FindProduct(r, u, id, ShopRating)
  \/ \E u \in Buyers, id \in ReviewIds : Review_Find(r, "updateReview", u, id, ShopRating)
  \/ \E u \in Buyers, id \in ReviewIds : Review_Find(r, "deleteReview", u, id, 0)

ShopCartStep(r) ==
  \/ addToCart_FindCart(r)
  \/ addToCart_CreateCart(r)
  \/ addToCart_FindItem(r)
  \/ addToCart_Write(r)
  \/ updateCartItem_Write(r)
  \/ removeFromCart_Delete(r)

\* Concurrent checkouts, cart changes and review requests.
NextShop ==
  \/ NextCheckout
  \/ \E r \in Slots :
       \/ Admit(r) /\ ShopStart(r)
       \/ ShopCartStep(r)
       \/ ReviewStep(r)

SpecShop == InitShop /\ [][NextShop]_vars

\* Orders: u2 has bought one B before; the administrator moves orders through
\* their states and deletes users and products while buyers check out.
InitOrders ==
  /\ users = AllUsers
  /\ reviews = {}
  /\ req = [r \in Slots |-> IdleReq]
  /\ started = 0
  /\ product = InitProduct([p \in Products |-> MaxStock])
  /\ stock0 = [p \in Products |-> MaxStock]
  /\ carts = {[id |-> 1, userId |-> "u1"], [id |-> 2, userId |-> "u2"]}
  /\ cartItems = {[id |-> 3, cartId |-> 1, productId |-> "A", quantity |-> 1],
                  [id |-> 5, cartId |-> 2, productId |-> "A", quantity |-> 1]}
  /\ orders = {[id |-> 6, userId |-> "u2", total |-> 5, status |-> "PENDING",
                paymentStatus |-> "PENDING"]}
  /\ orderItems = {[orderId |-> 6, line |-> 1, productId |-> "B", name |-> "B",
                    price |-> 5, quantity |-> 1]}
  /\ nextId = 7

OrderIds == {o.id : o \in orders} \cup {nextId}

OrdersStart(r) ==
  \/ \E actor \in Admins, id \in OrderIds, value \in {"SHIPPED", "PAID"} :
       Order_Find(r, "updateOrderStatus", actor, id, value)
  \/ \E actor \in Admins, id \in OrderIds, value \in {"SHIPPED", "PAID"} :
       Order_Find(r, "updatePaymentStatus", actor, id, value)
  \/ \E actor \in Admins, id \in AllUsers : deleteUser_Find(r, actor, id)
  \/ \E actor \in Admins, id \in ProductIds : deleteProduct_Find(r, actor, id)

OrdersStep(r) ==
  \/ Order_Update(r)
  \/ deleteUser_Delete(r)
  \/ deleteProduct_Delete(r)

NextOrders ==
  \/ NextCheckout
  \/ \E r \in Slots :
       \/ Admit(r) /\ OrdersStart(r)
       \/ OrdersStep(r)

SpecOrders == InitOrders /\ [][NextOrders]_vars

\* The whole system: checkouts, review requests and user deletions, concurrently.
Init == InitCheckout
Next ==
  \/ NextCheckout
  \/ NextReview
  \/ \E r \in Slots :
       \/ Admit(r) /\ \E actor \in Admins, id \in AllUsers : deleteUser_Find(r, actor, id)
       \/ deleteUser_Delete(r)
Spec == Init /\ [][Next]_vars

\* ------------------------------------------------------- checkout properties
RECURSIVE SumQuantity(_)
SumQuantity(S) ==
  IF S = {} THEN 0
  ELSE LET x == CHOOSE y \in S : TRUE IN x.quantity + SumQuantity(S \ {x})

\* Units of product p sold so far: the quantities of its OrderItems.
Sold(p) == SumQuantity({i \in orderItems : i.productId = p})

CheckoutTables == <<orders, orderItems, product, cartItems>>

C2_CommitOnlyIfInStock ==
  [][\A r \in Slots :
       (req[r].pc = "commit" /\ req'[r].pc = "committed")
         => \A k \in DOMAIN req[r].items :
              product[req[r].items[k].productId].stock >= req[r].items[k].quantity]_vars

\* C3: with no administrative stock edit, the stock of every product equals its
\* initial stock minus the quantities of all OrderItems created for it, and no
\* more than the initial stock is ever sold.
C3_StockConserved ==
  \A p \in Products :
    /\ product[p].stock = stock0[p] - Sold(p)
    /\ Sold(p) <= stock0[p]

\* C4: a checkout that fails the stock validation creates no Order and no
\* OrderItem, changes no product's stock and leaves the cart's items as they
\* were, and answers 400.
C4_ValidationFailureWritesNothing ==
  [][\A r \in Slots :
       (req[r].pc = "idle" /\ req'[r].pc = "done" /\ req'[r].error = "OutOfStock")
         => /\ req'[r].status = 400
            /\ req'[r].orderId = 0
            /\ UNCHANGED <<orders, orderItems, product, carts, cartItems>>]_vars

\* A checkout was rejected for stock while a line before the failing one was in
\* stock; the buyer's cart still holds its lines and nothing was ordered.
C4_Witness ==
  \E r \in Slots :
    /\ req[r].pc = "done" /\ req[r].error = "OutOfStock" /\ req[r].status = 400
    /\ LET items == CartSnapshot(CartOf(req[r].user))
       IN Len(items) = 2 /\ ~OutOfStock(items[1]) /\ OutOfStock(items[2])
    /\ orders = {} /\ orderItems = {}
    /\ \A p \in Products : product[p].stock = stock0[p]

\* The whole effect of one checkout: its Order, one OrderItem per line of its
\* snapshot, the stock of every line's product, and the cart's lines removed.
FullCheckout(r) ==
  LET q == req[r]
      newItems == orderItems' \ orderItems
  IN /\ q.pc = "commit"
     /\ \E o \in orders' :
          /\ o \notin orders /\ orders' = orders \cup {o}
          /\ o.id = q.orderId /\ o.userId = q.user
     /\ orderItems \subseteq orderItems'
     /\ Cardinality(newItems) = Len(q.items)
     /\ \A k \in DOMAIN q.items :
          /\ \E i \in newItems :
               /\ i.orderId = q.orderId /\ i.productId = q.items[k].productId
               /\ i.quantity = q.items[k].quantity
          /\ product'[q.items[k].productId].stock =
               q.items[k].stock - q.items[k].quantity
          /\ \A i \in cartItems' : i.id # q.items[k].itemId
     /\ \A p \in Products :
          (\A k \in DOMAIN q.items : q.items[k].productId # p) => product'[p] = product[p]
     /\ cartItems' \subseteq cartItems

\* C5: the checkout writes are all-or-nothing: every step either leaves orders,
\* order items, stock and cart items as they were (in particular the step in
\* which a write of the transaction fails), or applies the whole effect of one
\* checkout at once.
C5_AllOrNothing ==
  [][\/ UNCHANGED CheckoutTables
     \/ \E r \in Slots : FullCheckout(r)]_vars

\* A transaction failed after it had already made some of its writes, and none
\* of them is visible.
C5_Witness ==
  \E r \in Slots :
    /\ req[r].pc = "done" /\ req[r].error = "TransactionFailed" /\ req[r].wrote
    /\ orders = {} /\ orderItems = {}
    /\ \A p \in Products : product[p].stock = stock0[p]
    /\ \E i \in cartItems : i.cartId = CartOf(req[r].user).id

\* C10: when the order-confirmation notification throws after the commit, the
\* checkout still answers 201 and the step changes nothing persisted: the order
\* and its items are there.
C10_EmailFailureKeepsOrder ==
  [][\A r \in Slots :
       (req[r].pc = "email" /\ req'[r].pc = "done" /\ req'[r].email = "threw")
         => /\ req'[r].status = 201
            /\ UNCHANGED db
            /\ \E o \in orders' : o.id = req[r].orderId
            /\ \E i \in orderItems' : i.orderId = req[r].orderId]_vars

\* A checkout whose notification threw has answered 201 and its order exists.
C10_Witness ==
  \E r \in Slots :
    /\ req[r].pc = "done" /\ req[r].email = "threw" /\ req[r].status = 201
    /\ \E o \in orders : o.id = req[r].orderId /\ o.userId = req[r].user

\* The step in which the transaction of request r commits.
Commits(r) == req[r].pc = "commit" /\ req'[r].pc = "committed"

RECURSIVE SumLines(_)
\* The sum of price * quantity over a set of OrderItems.
SumLines(S) ==
  IF S = {} THEN 0
  ELSE LET x == CHOOSE y \in S : TRUE IN x.price * x.quantity + SumLines(S \ {x})

\* C11: the total of every order created by checkout is the sum of price *
\* quantity over the lines of the cart snapshot that passed validation, at the
\* prices of that snapshot, and so equals the sum of price * quantity over the
\* order's OrderItems, also when a product's price changes during the checkout.
C11_TotalIsSumOfSnapshotLines ==
  [][\A r \in Slots :
       Commits(r) =>
         \E o \in orders' \ orders :
           /\ o.id = req[r].orderId
           /\ o.total = SumSeq([k \in DOMAIN req[r].items |->
                                  req[r].items[k].price * req[r].items[k].quantity])
           /\ o.total = SumLines({i \in orderItems' : i.orderId = o.id})]_vars

\* A checkout has just committed an order of two lines while an administrator's
\* request, started after the checkout, changed the price of one of its products.
C11_Witness ==
  /\ req[1].kind = "createOrder" /\ req[1].pc = "committed"
  /\ req[2].kind = "updateProduct" /\ req[2].pc = "done" /\ req[2].status = 200
  /\ \E o \in orders :
       /\ o.id = req[1].orderId
       /\ Cardinality({i \in orderItems : i.orderId = o.id}) = 2
       /\ \E i \in orderItems :
            i.orderId = o.id /\ product[i.productId].price # i.price

\* C12: a successful checkout creates exactly one Order, with status PENDING and
\* paymentStatus PENDING, and exactly one OrderItem per line of the cart
\* snapshot, carrying the line's product id, the snapshot's name and price, and
\* the line's quantity.
C12_OneOrderOneItemPerLine ==
  [][\A r \in Slots :
       Commits(r) =>
         LET items == req[r].items
             newItems == orderItems' \ orderItems
         IN /\ Cardinality(orders' \ orders) = 1
            /\ orders \subseteq orders'
            /\ \A o \in orders' \ orders :
                 /\ o.userId = req[r].user
                 /\ o.status = "PENDING" /\ o.paymentStatus = "PENDING"
                 /\ \A i \in newItems : i.orderId = o.id
            /\ orderItems \subseteq orderItems'
            /\ Cardinality(newItems) = Len(items)
            /\ \A k \in DOMAIN items :
                 \E i \in newItems :
                   /\ i.line = k
                   /\ i.productId = items[k].productId
                   /\ i.name = items[k].name
                   /\ i.price = items[k].price
                   /\ i.quantity = items[k].quantity]_vars

\* A checkout of a cart of two lines has committed: its order is PENDING/PENDING
\* and has two items, while the name of one of the products was changed after
\* the cart was read.
C12_Witness ==
  \E r \in Slots :
    /\ req[r].kind = "createOrder" /\ req[r].pc = "committed"
    /\ \E o \in orders :
         /\ o.id = req[r].orderId /\ o.status = "PENDING" /\ o.paymentStatus = "PENDING"
         /\ Cardinality({i \in orderItems : i.orderId = o.id}) = 2
         /\ \E i \in orderItems : i.orderId = o.id /\ product[i.productId].name # i.name

C14_OrderItemsFrozen ==
  [][/\ \A o \in orders : \E o2 \in orders' : o2.id = o.id /\ o2.total = o.total
     /\ \A i \in orderItems :
          \E i2 \in orderItems' :
            /\ i2.orderId = i.orderId /\ i2.line = i.line
            /\ i2.name = i.name /\ i2.price = i.price /\ i2.quantity = i.quantity]_vars

\* An updateProduct that read the product after a checkout had sold it has
\* changed the product's name or price; the OrderItem keeps the old one.
C14_Witness ==
  \E r \in Slots :
    /\ req[r].kind = "updateProduct" /\ req[r].pc = "done" /\ req[r].status = 200
    /\ req[r].productExists.stock < stock0[req[r].productId]
    /\ \E i \in orderItems :
         /\ i.productId = req[r].productId
         /\ (i.price # product[i.productId].price \/ i.name # product[i.productId].name)

\* C18: a deleteProduct request never removes or changes an OrderItem: every
\* OrderItem that existed before the deletion step exists after it with the
\* same name, price and quantity.
C18_DeleteProductKeepsOrderItems ==
  [][\A r \in Slots :
       (req[r].kind = "deleteProduct" /\ req[r].pc = "delete" /\ req'[r].pc = "done")
         => \A i \in orderItems : i \in orderItems']_vars

\* A deleteProduct of a product that an OrderItem references was refused by the
\* store; the product and the OrderItem are still there.
C18_Witness ==
  \E r \in Slots :
    /\ req[r].kind = "deleteProduct" /\ req[r].pc = "done"
    /\ req[r].error = "ForeignKey"
    /\ Exists(req[r].productId)
    /\ \E i \in orderItems : i.productId = req[r].productId

\* ------------------------------------------------------- cart properties
\* The step in which request r starts as a request of the given kind by user u.
Starts(r, kind, u) ==
  /\ started' = started + 1
  /\ req[r].pc \in {"idle", "done"}
  /\ req'[r].kind = kind /\ req'[r].user = u

\* C15: a checkout by a buyer who has no cart, or whose cart has no items, ends
\* with status 400 (EmptyCart) and writes nothing: no order, no order item, no
\* stock change.
C15_EmptyCartRejected ==
  [][\A r \in Slots, u \in Buyers :
       (/\ req[r].pc = "idle" /\ Starts(r, "createOrder", u)
        /\ \A i \in cartItems : i.cartId # CartOf(u).id)
         => /\ req'[r].pc = "done"
            /\ req'[r].status = 400 /\ req'[r].error = "EmptyCart"
            /\ UNCHANGED db]_vars

\* A buyer without a cart asked to check out and was answered 400; nothing was
\* ordered.
C15_Witness ==
  \E r \in Slots :
    /\ req[r].kind = "createOrder" /\ req[r].pc = "done"
    /\ req[r].status = 400 /\ req[r].error = "EmptyCart"
    /\ CartOf(req[r].user) = Null
    /\ orders = {} /\ orderItems = {}

\* C16: get-or-create of the cart never fails and never duplicates: no step
\* leaves a buyer with two carts, and a getCart request of a buyer who had no
\* cart answers 200 with an empty cart, also when another first access of the
\* same buyer runs concurrently.
C16_GetOrCreateNeverFails ==
  [][/\ \A c, d \in carts' : c.userId = d.userId => c = d
     /\ \A r \in Slots :
          (req[r].kind = "getCart" /\ req[r].pc = "createCart" /\ req'[r].pc = "done")
            => req'[r].status = 200 /\ req'[r].resp = {}]_vars

\* C17: a getCart request that directly follows a successful getCart of the same
\* buyer (requests one at a time, nothing in between) returns the same items,
\* also when the first of the two created the cart.
C17_GetCartIdempotent ==
  [][\A r \in Slots :
       (/\ req[r].kind = "getCart" /\ req[r].pc = "done" /\ req[r].status = 200
        /\ Starts(r, "getCart", req[r].user))
         => /\ req'[r].pc = "done" /\ req'[r].status = 200
            /\ req'[r].resp = req[r].resp]_vars

\* The first request created the buyer's cart (it got the first fresh id and no
\* line followed it), and the second, a getCart of the same buyer, has answered.
C17_Witness ==
  \E r \in Slots :
    /\ started = 2 /\ nextId = 8
    /\ req[r].kind = "getCart" /\ req[r].pc = "done" /\ req[r].status = 200
    /\ CartOf(req[r].user) # Null /\ CartOf(req[r].user).id = 7
    /\ req[r].resp = {}

\* C20: in every reachable state every CartItem has quantity >= 1 and no cart
\* has two lines for one product.
C20_CartLinesPositiveAndUnique ==
  /\ \A i \in cartItems : i.quantity >= 1
  /\ \A i, j \in cartItems :
       (i.cartId = j.cartId /\ i.productId = j.productId) => i = j

\* The OrderItems of an order.
ItemsOf(id, items) == {i \in items : i.orderId = id}

\* C22: once the transaction of a checkout has committed, its response is
\* eventually sent, whether or not the order-confirmation notification returns.
C22_ResponseDoesNotWaitForEmail ==
  \A r \in Slots : (req[r].pc = "committed") ~> (req[r].pc = "done")

\* C26: the order-confirmation notification is dispatched only by a checkout
\* whose order and items are persisted, at most once per checkout, and a
\* checkout that does not answer 201 has dispatched none.
C26_EmailOnlyAfterCommit ==
  [][\A r \in Slots :
       /\ (req'[r].email = "pending" /\ req[r].email # "pending") =>
            /\ req[r].kind = "createOrder" /\ req[r].email = "none"
            /\ \E o \in orders : o.id = req[r].orderId /\ o.userId = req[r].user
            /\ ItemsOf(req[r].orderId, orderItems) # {}
       /\ (req'[r].kind = "createOrder" /\ req'[r].pc = "done" /\ req'[r].status # 201)
            => req'[r].email = "none"]_vars

\* One checkout has committed and its notification is on its way; another has
\* failed in its transaction and dispatched none.
C26_Witness ==
  \E r, t \in Slots :
    /\ req[r].kind = "createOrder" /\ req[r].pc = "email" /\ req[r].email = "pending"
    /\ \E o \in orders : o.id = req[r].orderId
    /\ req[t].kind = "createOrder" /\ req[t].pc = "done"
    /\ req[t].error = "TransactionFailed" /\ req[t].email = "none"

\* C31: every CartItem that the commit of a checkout deletes is represented by
\* an OrderItem of the created order with the same product and quantity, also
\* when the buyer added or changed a cart item after the checkout read the cart.
C31_CheckoutRemovesOnlyWhatItOrdered ==
  [][\A r \in Slots :
       Commits(r) =>
         \A i \in cartItems \ cartItems' :
           \E oi \in ItemsOf(req[r].orderId, orderItems') :
             oi.productId = i.productId /\ oi.quantity = i.quantity]_vars

\* C32: with checkouts only (no request changes a cart between them), the
\* content of a buyer's cart becomes at most one order.
C32_OneCartOneOrder ==
  \A u \in Buyers : Cardinality({o \in orders : o.userId = u}) <= 1

\* C28: each derived or inventory field of a product has one writer: a step
\* that changes a product's stock is a checkout's, a step that changes its
\* rating or reviewCount is a review operation's; updateProduct writes none of
\* them.
C28_SingleWriterPerField ==
  [][\A p \in Products :
       /\ product'[p].stock # product[p].stock =>
            \E r \in Slots : req'[r] # req[r] /\ req[r].kind = "createOrder"
       /\ (\/ product'[p].rating # product[p].rating
           \/ product'[p].reviewCount # product[p].reviewCount) =>
            \E r \in Slots : req'[r] # req[r] /\ req[r].kind \in
                                {"createProductReview", "updateReview", "deleteReview"}]_vars

\* C30: the write of an updateProduct request whose body has no stock leaves
\* the product's stock as it is in the store at that moment, whatever checkouts
\* committed since the request read the product.
C30_UpdateWithoutStockKeepsStock ==
  [][\A r \in Slots :
       (/\ req[r].kind = "updateProduct" /\ req[r].pc = "update"
        /\ req'[r].pc = "done"
        /\ ~Supplied(req[r].body.stock))
         => product'[req[r].productId].stock = product[req[r].productId].stock]_vars

\* ------------------------------------------------------- order properties
\* The step in which request r of the given kind writes an order.
WritesOrder(r, kind, id) ==
  /\ req[r].kind = kind /\ req[r].pc = "update" /\ req[r].orderId = id
  /\ req'[r].pc = "done"

\* C21: an order changes only in its two status fields: no step changes its
\* total, owner or OrderItems; its status changes only in a step of an
\* updateOrderStatus request for it, which leaves paymentStatus alone; its
\* paymentStatus only in a step of an updatePaymentStatus request for it, which
\* leaves status alone; a checkout changes neither.
C21_OnlyStatusFieldsChange ==
  [][\A o \in orders :
       \E o2 \in orders' :
         /\ o2.id = o.id /\ o2.total = o.total /\ o2.userId = o.userId
         /\ ItemsOf(o.id, orderItems') = ItemsOf(o.id, orderItems)
         /\ o2.status # o.status =>
              /\ \E r \in Slots : WritesOrder(r, "updateOrderStatus", o.id)
              /\ o2.paymentStatus = o.paymentStatus
         /\ o2.paymentStatus # o.paymentStatus =>
              /\ \E r \in Slots : WritesOrder(r, "updatePaymentStatus", o.id)
              /\ o2.status = o.status]_vars

\* The administrator has shipped the earlier order and marked it paid, in two
\* requests; its total and its item are as they were.
C21_Witness ==
  /\ \E o \in orders :
       /\ o.id = 6 /\ o.status = "SHIPPED" /\ o.paymentStatus = "PAID"
       /\ o.total = 5 /\ o.userId = "u2"
  /\ Cardinality(ItemsOf(6, orderItems)) = 1
  /\ \A r \in Slots : req[r].pc = "done" /\ req[r].status = 200

\* C25: orders and order items are never deleted: in every step, every Order
\* and every OrderItem that existed before exists after, whatever the operation
\* (deleteUser and deleteProduct included).
C25_OrdersOnlyGrow ==
  [][/\ \A o \in orders : \E o2 \in orders' : o2.id = o.id
     /\ \A i \in orderItems :
          \E i2 \in orderItems' : i2.orderId = i.orderId /\ i2.line = i.line]_vars

\* The administrator asked to delete a user who has an order; the store refused,
\* and the user, the order and its item are still there.
C25_Witness ==
  \E r \in Slots :
    /\ req[r].kind = "deleteUser" /\ req[r].pc = "done" /\ req[r].error = "ForeignKey"
    /\ req[r].target \in users
    /\ \E o \in orders :
         o.userId = req[r].target /\ ItemsOf(o.id, orderItems) # {}

\* ------------------------------------------------------- review properties
RECURSIVE SumRating(_)
SumRating(S) ==
  IF S = {} THEN 0
  ELSE LET x == CHOOSE y \in S : TRUE IN x.rating + SumRating(S \ {x})

\* The arithmetic mean of the ratings of a set of reviews, 0 for no review.
Mean(S) == IF S = {} THEN Zero ELSE Div(SumRating(S), Cardinality(S))

\* The product's derived fields agree with its reviews.
AggregateOk(p) ==
  /\ product[p].reviewCount = Cardinality(ReviewsOf(p))
  /\ product[p].rating = Mean(ReviewsOf(p))

ReviewMutations == {"createProductReview", "updateReview", "deleteReview"}
Completed(r) ==
  req[r].pc = "done" /\ req[r].kind \in ReviewMutations /\ req[r].status \in {200, 201}
Quiescent == \A r \in Slots : req[r].pc \in {"idle", "done"}

\* C6: after every completed review mutation (requests handled one at a time),
\* the affected product has reviewCount = number of its reviews and rating =
\* their mean, both 0 when no review is left.
C6_AggregateAfterMutation ==
  \A r \in Slots : Completed(r) => AggregateOk(req[r].productId)

\* C7: once all concurrent review requests on a product have completed, its
\* reviewCount is the number of its reviews and its rating their mean.
C7_AggregateAfterConcurrentMutations ==
  Quiescent => \A p \in Products : AggregateOk(p)

\* C8: in every reachable state there is at most one Review per (user, product).
C8_OneReviewPerUserAndProduct ==
  \A v, w \in reviews : (v.userId = w.userId /\ v.productId = w.productId) => v = w

\* Two requests of one buyer for one product ran concurrently, both found no
\* earlier review, one created its review and the store refused the other's.
C8_Witness ==
  \E r, t \in Slots :
    /\ req[r].kind = "createProductReview" /\ req[t].kind = "createProductReview"
    /\ req[r].user = req[t].user /\ req[r].productId = req[t].productId
    /\ req[r].error = "UniqueConstraint"
    /\ req[t].reviewId # 0
    /\ Cardinality({v \in reviews : v.userId = req[r].user
                                     /\ v.productId = req[r].productId}) = 1

\* C9: a createProductReview request by a buyer who already has a review of the
\* product (made earlier or by a concurrent request) is rejected with status 400,
\* and the rejection leaves the reviews and the product's aggregate unchanged.
C9_DuplicateRejectedWith400 ==
  [][\A r \in Slots :
       (/\ req[r].kind = "createProductReview" /\ req[r].pc # "done"
        /\ req'[r].pc = "done"
        /\ \E v \in reviews : /\ v.userId = req[r].user
                               /\ v.productId = req[r].productId
                               /\ v.id # req[r].reviewId)
         => /\ req'[r].status = 400
            /\ UNCHANGED <<reviews, product>>]_vars

\* C24: a getCart request changes no product, no cart item, no order and no
\* order item; the only thing it may write is the caller's cart, created with
\* no item when the caller had none.
C24_GetCartWritesOnlyEmptyCart ==
  [][\A r \in Slots :
       (req'[r] # req[r] /\ req'[r].kind = "getCart") =>
         /\ UNCHANGED <<users, product, cartItems, orders, orderItems, reviews>>
         /\ \/ carts' = carts
            \/ /\ CartOf(req'[r].user) = Null
               /\ \E c \in carts' :
                    /\ carts' = carts \cup {c}
                    /\ c.userId = req'[r].user
                    /\ ~\E i \in cartItems' : i.cartId = c.id]_vars

\* A getCart request created the caller's cart and answered with no items while
\* the other buyer's checkout committed an order.
C24_Witness ==
  \E r \in Slots :
    /\ req[r].kind = "getCart" /\ req[r].pc = "done" /\ req[r].status = 200
    /\ req[r].resp = {}
    /\ CartOf(req[r].user) # Null /\ CartOf(req[r].user).id >= 7
    /\ orders # {}

\* C29: a request to checkout, addToCart, updateCartItem, removeFromCart or a
\* review operation that ends with 400, 403 or 404 has written nothing: the
\* step that answers changes no table and is the request's first step or follows
\* the duplicate lookup of createProductReview, which changes no table either.
C29_ClientErrorsWriteNothing ==
  [][\A r \in Slots :
       (/\ req'[r] # req[r]
        /\ req'[r].kind \in {"createOrder", "addToCart", "updateCartItem",
                              "removeFromCart", "createProductReview",
                              "updateReview", "deleteReview"}
        /\ \/ req'[r].pc = "findReview"
           \/ req'[r].pc = "done" /\ req'[r].status \in {400, 403, 404})
         => /\ UNCHANGED db
            /\ req[r].pc \in {"idle", "findReview"}]_vars

\* After another request has changed the store, a checkout was refused for
\* stock or an updateCartItem for stock or ownership.
C29_Witness ==
  \E r, t \in Slots :
    /\ req[r].kind \in {"createOrder", "updateCartItem"}
    /\ req[r].pc = "done" /\ req[r].error \in {"OutOfStock", "NotAuthorized"}
    /\ req[t].pc = "done" /\ req[t].status \in {200, 201}
    /\ started = 2

\* C23: an updateReview or deleteReview request by a user who is neither the
\* review's owner nor an administrator ends with status 403 and leaves the
\* reviews and the product's rating and reviewCount unchanged; whenever a review
\* is changed or removed, the request doing it is its owner's or an
\* administrator's.
C23_OnlyOwnerOrAdminChangesReview ==
  [][/\ \A r \in Slots :
          (/\ req[r].pc = "idle" /\ req'[r].kind \in {"updateReview", "deleteReview"}
           /\ ReviewById(req'[r].reviewId) # Null
           /\ ReviewById(req'[r].reviewId).userId # req'[r].user
           /\ req'[r].user \notin Admins)
            => /\ req'[r].pc = "done" /\ req'[r].status = 403
               /\ UNCHANGED <<reviews, product>>
     /\ \A v \in reviews \ reviews' :
          \E r \in Slots : /\ req'[r] # req[r]
                            /\ req[r].kind \in {"updateReview", "deleteReview"}
                            /\ (req[r].user = v.userId \/ req[r].user \in Admins)]_vars

\* A buyer asked to change or delete another buyer's review and got 403; the
\* review is still there.
C23_Witness ==
  \E r \in Slots :
    /\ req[r].kind \in {"updateReview", "deleteReview"}
    /\ req[r].pc = "done" /\ req[r].status = 403
    /\ req[r].user \in Buyers
    /\ ReviewById(req[r].reviewId) # Null
    /\ ReviewById(req[r].reviewId).userId # req[r].user

\* C27: a review mutation and the recomputation of the product's aggregate are
\* one atomic unit: no step changes the reviews of a product and leaves its
\* rating/reviewCount behind, so no state shows the one without the other.
C27_ReviewAndAggregateAtomic ==
  [][\A p \in Products :
       (AggregateOk(p) /\ ReviewsOf(p)' # ReviewsOf(p)) => AggregateOk(p)']_vars

\* C33: when deleteUser removes a user, every product whose reviewCount and
\* rating agreed with its reviews before still has reviewCount = number of its
\* remaining reviews and rating = their mean (0 if none).
C33_CascadeKeepsAggregate ==
  [][\A r \in Slots :
       (req[r].kind = "deleteUser" /\ req[r].pc = "deleteUser" /\ users' # users)
         => \A p \in Products : AggregateOk(p) => AggregateOk(p)']_vars

\* C34: requests being handled one at a time and the stock not changing, the
\* line written by a successful addToCart or updateCartItem has a quantity of
\* at most the product's stock, which is the stock the request read.
C34_CartLineWithinStockRead ==
  [][\A r \in Slots :
       (/\ req[r].kind \in {"addToCart", "updateCartItem"} /\ req[r].pc = "write"
        /\ req'[r].pc = "done" /\ req'[r].status \in {200, 201})
         => \A i \in cartItems' \ cartItems :
              i.quantity <= product[i.productId].stock]_vars

\* C19: every persisted Review has an integer rating between 1 and 5.
C19_RatingInRange ==
  \A v \in reviews : v.rating \in 1..5

=============================================================================
